---- MODULE Spec2Model ----
(***************************************************************************)
(* Model of the segregated-free-list allocator of mm.c.                    *)
(*                                                                         *)
(* The arena is an array of 64-bit words; an address is a byte address     *)
(* and every word access goes through Ld/St, which check it against the    *)
(* current heap bounds.  mem holds the words of the arena that differ from *)
(* the value g the arena was found with; every other word holds g.  Every  *)
(* helper of mm.c is an operator over a heap record                        *)
(* h = [mem, g, brk, seg, hs, fault, hang] that returns the new heap       *)
(* record (and a result, where the C function returns one).                *)
(*                                                                         *)
(* Word values are kept below 2^30 (sizes, pointers, the data written by   *)
(* the caller and the initial contents of the arena are drawn from small   *)
(* sets), so the bit operations of the header codec and the address        *)
(* arithmetic are exact on them.                                           *)
(***************************************************************************)
EXTENDS Integers, Sequences, FiniteSets, TLC

(***************************************************************************)
(* Bounds of the model.                                                    *)
(***************************************************************************)
\* number of chunksize units mem_sbrk hands out before it fails
MaxChunks == 2
\* number of calls of the public operations in one run
MaxOps == 4
\* number of those calls that are not a malloc of a positive size or a free
\* of a live allocation: realloc, calloc, malloc(0), free(NULL)
MaxAux == 1
\* number of allocations live at the same time
MaxLive == 3
\* number of free blocks of one class the caller of SpecLongList builds
MaxList == 7

(***************************************************************************)
(* Program constants (mm.c:84-122).                                        *)
(***************************************************************************)
SEG_LENGTH == 15
wsize == 8
dsize == 2 * wsize
min_block_size == dsize
chunksize == 4096
alloc_mask == 1
prev_alloc_mask == 2
prev_min_tag_mask == 4
MAX_TRIES == 5
NULL == 0
\* stands for SIZE_MAX, the initial good_size of find_fit; it is never
\* compared before a block size has replaced it
SIZE_MAX == 2147483647
\* the number of values of a size_t: the 64-bit word is scaled to 30 bits,
\* and the product of calloc wraps around at this value
SIZE_T_RANGE == 1073741824

(***************************************************************************)
(* The heap primitive (memlib): a fixed arena starting at a 16-byte        *)
(* aligned address, grown by mem_sbrk until MAX_HEAP bytes are in use: the *)
(* two sentinel words, MaxChunks chunks and one alignment unit, so that    *)
(* one extension by more than a chunk fits.                                *)
(***************************************************************************)
mem_heap_lo_addr == 16
MAX_HEAP == 2 * wsize + MaxChunks * chunksize + dsize
SBRK_FAIL == -1

\* values the words of the arena may hold before the program writes them
Garbage == {0, 1073741823}
\* values the caller stores into the words of its payloads
FillValues == {11184810}
\* the request sizes whose payloads the caller fills
FilledSizes == {32}
\* request sizes of the calls
RequestSizes == {0, 8, 32, 4080}
\* the caller of SpecLongList: request sizes of the blocks it frees (blocks
\* of 160 and 176 bytes), the request that keeps two of them apart, and
\* the request it then makes (a block of 144 bytes, of the same class)
LongListSizes == {144, 160}
SeparatorSize == 8
ProbeSizes == {128}
\* (elements, size) pairs of the calloc calls; 1024 * 4 has an adjusted size
\* above chunksize; the product of the last two does not fit in a size_t:
\* it wraps to 32 and to 0
CallocArgs ==
    {<<0, 8>>, <<13, 1>>, <<1024, 4>>, <<32408, 33132>>, <<32768, 32768>>}

VARIABLES mem, garbage, brk, seg_list, heap_start, fault, hang, live, last,
          nops, naux

vars == <<mem, garbage, brk, seg_list, heap_start, fault, hang, live, last,
          nops, naux>>

\* the allocator's state as one record
H == [mem |-> mem, g |-> garbage, brk |-> brk, seg |-> seg_list,
      hs |-> heap_start, fault |-> fault, hang |-> hang]

(***************************************************************************)
(* Word access.                                                            *)
(***************************************************************************)
mem_heap_lo(h) == mem_heap_lo_addr
mem_heap_hi(h) == h.brk - 1
mem_heapsize(h) == h.brk - mem_heap_lo_addr

\* a word-aligned address whose 8 bytes lie inside [heap_lo, heap_hi]
InMem(h, a) ==
    /\ a >= mem_heap_lo_addr
    /\ a % wsize = 0
    /\ a + wsize <= h.brk

\* the word the arena holds at address a
Word(h, a) == IF a \in DOMAIN h.mem THEN h.mem[a] ELSE h.g

Ld(h, a) == IF InMem(h, a) THEN Word(h, a) ELSE 0

\* the arena with the word at a replaced by v
Poke(h, a, v) ==
    IF v = h.g THEN [x \in DOMAIN h.mem \ {a} |-> h.mem[x]]
    ELSE [x \in DOMAIN h.mem \cup {a} |-> IF x = a THEN v ELSE h.mem[x]]

St(h, a, v) ==
    IF InMem(h, a) THEN [h EXCEPT !.mem = Poke(h, a, v)]
    ELSE [h EXCEPT !.fault = TRUE]

\* a scan gives up after as many steps as the heap has words
Fuel(h) == mem_heapsize(h) \div wsize + 2

Bit(word, mask) == (word \div mask) % 2 = 1
OrBit(word, mask) == IF Bit(word, mask) THEN word ELSE word + mask

(***************************************************************************)
(* Short helper functions.  Each operator is one step of a C function: the *)
(* heap it is given is the heap the statements before it have left.        *)
(***************************************************************************)
max(x, y) == IF x > y THEN x ELSE y

\* size_t arithmetic: the sum and the product wrap around at SIZE_T_RANGE
round_up(size, n) ==
    (n * (((size + (n - 1)) % SIZE_T_RANGE) \div n)) % SIZE_T_RANGE

\* if (cond) word |= mask
or_if(word, cond, mask) == IF cond THEN OrBit(word, mask) ELSE word

pack(size, alloc, prev_alloc, prev_min_alloc) ==
    or_if(or_if(or_if(size, alloc, alloc_mask), prev_alloc, prev_alloc_mask),
          prev_min_alloc, prev_min_tag_mask)

extract_size(word) == word - (word % 16)
extract_alloc(word) == Bit(word, alloc_mask)
get_prev_alloc(header) == Bit(header, prev_alloc_mask)
get_prev_min_tag(header) == Bit(header, prev_min_tag_mask)

get_size(h, block) == extract_size(Ld(h, block))
get_alloc(h, block) == extract_alloc(Ld(h, block))

payload_to_header(bp) == bp - wsize
\* variant: the payload is taken to start at the header
header_to_payload_at_header(block) == block
header_to_payload(block) == block + wsize
\* variant: the footer address is computed from the header, not from data
header_to_footer_from_header(h, block) == block + get_size(h, block) - dsize
header_to_footer(h, block) == block + wsize + get_size(h, block) - dsize

footer_to_header(h, footer) ==
    IF extract_size(Ld(h, footer)) = 0 THEN footer
    ELSE footer + wsize - extract_size(Ld(h, footer))

get_payload_size(h, block) ==
    IF get_alloc(h, block) THEN get_size(h, block) - wsize
    ELSE get_size(h, block) - dsize

\* the link fields of the payload union
NextField(block) == block + wsize
PrevField(block) == block + 2 * wsize
get_next(h, block) == Ld(h, NextField(block))
get_prev(h, block) == Ld(h, PrevField(block))

find_next(h, block) == block + get_size(h, block)
find_prev_footer(block) == block - wsize

find_prev(h, block) ==
    IF get_prev_min_tag(Ld(h, block)) THEN block - 16
    ELSE footer_to_header(h, find_prev_footer(block))

write_epilogue(h, block) ==
    St(h, block, pack(0, TRUE, get_prev_alloc(Ld(h, block)),
                      get_prev_min_tag(Ld(h, block))))

\* write_block, first statement: the header of the block
write_header(h, block, size, alloc) ==
    St(h, block, pack(size, alloc, get_prev_alloc(Ld(h, block)),
                      get_prev_min_tag(Ld(h, block))))

\* write_block, second statement: the footer of a free block above the
\* minimum size
write_footer(h, block, size, alloc) ==
    IF ~alloc /\ get_size(h, block) > min_block_size
    THEN St(h, header_to_footer(h, block),
            pack(size, alloc, get_prev_alloc(Ld(h, block)),
                 get_prev_min_tag(Ld(h, block))))
    ELSE h

\* write_block, last statement: the flags of the next block
write_next_flags(h, block, block_next, alloc) ==
    St(h, block_next,
       pack(get_size(h, block_next), get_alloc(h, block_next), alloc,
            get_size(h, block) = min_block_size))

\* variant: the successor's header is left as it was
write_block_no_propagation(h, block, size, alloc) ==
    write_footer(write_header(h, block, size, alloc), block, size, alloc)

write_block(h, block, size, alloc) ==
    write_next_flags(
        write_footer(write_header(h, block, size, alloc), block, size, alloc),
        block,
        find_next(write_footer(write_header(h, block, size, alloc),
                               block, size, alloc), block),
        alloc)

(***************************************************************************)
(* The segregated index.                                                   *)
(***************************************************************************)
init_seg_list(h) == [h EXCEPT !.seg = [i \in 1..SEG_LENGTH |-> NULL]]

ExactSizes == <<min_block_size, 32, 48, 64, 80, 96, 112, 128>>

RECURSIVE seg_index_loop(_, _)
seg_index_loop(size, idx) ==
    IF size > 1 /\ idx < SEG_LENGTH - 1
    THEN seg_index_loop(size \div 2, idx + 1)
    ELSE idx

get_seg_index(size) ==
    IF \E i \in 1..Len(ExactSizes) : size = ExactSizes[i]
    THEN (CHOOSE i \in 1..Len(ExactSizes) : size = ExactSizes[i]) - 1
    ELSE seg_index_loop(size \div 32, Len(ExactSizes))

seg_head(h, idx) == h.seg[idx + 1]
set_head(h, idx, block) == [h EXCEPT !.seg[idx + 1] = block]

\* add_node: if (block != start) block->next = start
link_next(h, block, start) ==
    IF block # start THEN St(h, NextField(block), start) ELSE h

\* add_node: block->prev = NULL
clear_prev(h, block) == St(h, PrevField(block), NULL)

\* add_node: if (start != NULL && block != start) start->prev = block
link_back(h, block, start) ==
    IF start # NULL /\ block # start THEN St(h, PrevField(start), block)
    ELSE h

\* variant of add_node_at: the old head's prev is not set to the new node
add_node_at_no_back_link(h, block, idx, start) ==
    IF idx = 0
    THEN set_head(St(h, NextField(block), start), idx, block)
    ELSE set_head(clear_prev(link_next(h, block, start), block), idx, block)

\* add_node with idx and start computed
add_node_at(h, block, idx, start) ==
    IF idx = 0
    THEN set_head(St(h, NextField(block), start), idx, block)
    ELSE set_head(link_back(clear_prev(link_next(h, block, start), block),
                            block, start),
                  idx, block)

\* variant: the old head's prev is not set to the new node
add_node_no_back_link(h, block) ==
    add_node_at_no_back_link(h, block, get_seg_index(get_size(h, block)),
                             seg_head(h, get_seg_index(get_size(h, block))))

\* variant: the class is computed from the payload size of the block
add_node_by_payload_size(h, block) ==
    add_node_at(h, block, get_seg_index(get_payload_size(h, block)),
                seg_head(h, get_seg_index(get_payload_size(h, block))))

add_node(h, block) ==
    add_node_at(h, block, get_seg_index(get_size(h, block)),
                seg_head(h, get_seg_index(get_size(h, block))))

\* the while loop of delete_node for the minimum-size class
RECURSIVE delete_min_scan(_, _, _, _)
delete_min_scan(h, curr, block, fuel) ==
    IF curr = NULL THEN h
    ELSE IF fuel = 0 THEN [h EXCEPT !.hang = TRUE]
    ELSE IF get_next(h, curr) = block
         THEN St(h, NextField(curr), get_next(h, block))
         ELSE delete_min_scan(h, get_next(h, curr), block, fuel - 1)

\* delete_node for the minimum-size class, curr = seg_list[0]
delete_min(h, block, curr) ==
    IF curr = block THEN set_head(h, 0, get_next(h, curr))
    ELSE delete_min_scan(h, curr, block, Fuel(h))

\* variant of unlink_prev: the head is left as it was
unlink_prev_keeps_head(h, block, idx) ==
    IF get_prev(h, block) # NULL
    THEN St(h, NextField(get_prev(h, block)), get_next(h, block))
    ELSE h

\* delete_node: block->prev->next = block->next, or the head moves on
unlink_prev(h, block, idx) ==
    IF get_prev(h, block) # NULL
    THEN St(h, NextField(get_prev(h, block)), get_next(h, block))
    ELSE set_head(h, idx, get_next(h, block))

\* delete_node: block->next->prev = block->prev
unlink_next(h, block) ==
    IF get_next(h, block) # NULL
    THEN St(h, PrevField(get_next(h, block)), get_prev(h, block))
    ELSE h

\* delete_node: block->next = NULL; block->prev = NULL
clear_links(h, block) ==
    St(St(h, NextField(block), NULL), PrevField(block), NULL)

\* variant: removing the first node of a doubly-linked list leaves the head
delete_node_keeps_head(h, block) ==
    IF get_seg_index(get_size(h, block)) = 0
    THEN delete_min(h, block, seg_head(h, 0))
    ELSE clear_links(
             unlink_next(
                 unlink_prev_keeps_head(h, block,
                                        get_seg_index(get_size(h, block))),
                 block),
             block)

delete_node(h, block) ==
    IF get_seg_index(get_size(h, block)) = 0
    THEN delete_min(h, block, seg_head(h, 0))
    ELSE clear_links(
             unlink_next(
                 unlink_prev(h, block, get_seg_index(get_size(h, block))),
                 block),
             block)

(***************************************************************************)
(* The heap primitive and the byte copies of libc.                         *)
(***************************************************************************)
\* mem_sbrk: grows the heap by incr bytes and returns the old break; the
\* new bytes hold what the arena held there before
mem_sbrk(h, incr) ==
    IF incr < 0 \/ mem_heapsize(h) + incr > MAX_HEAP
    THEN [h |-> h, ret |-> SBRK_FAIL]
    ELSE [h |-> [h EXCEPT !.brk = h.brk + incr], ret |-> h.brk]

\* mem_reset_brk: the heap is empty again; the arena keeps its words
mem_reset_brk(h) == [h EXCEPT !.brk = mem_heap_lo_addr]

\* 2^(8k) for k = 1..3
ByteMask(k) == IF k = 1 THEN 256 ELSE IF k = 2 THEN 65536 ELSE 16777216

\* the word that results from replacing the low k bytes of old by the low k
\* bytes of new (all words are below 2^30, so bytes 4..7 are zero)
MergeBytes(old, new, k) ==
    IF k >= 4 THEN new
    ELSE (old - (old % ByteMask(k))) + (new % ByteMask(k))

WordsOf(n) == (n + wsize - 1) \div wsize

\* the word at a after the first n bytes of the word sequence src have been
\* stored at dst
WordAfterWrite(h, dst, n, src, a) ==
    IF a < dst \/ a >= dst + WordsOf(n) * wsize THEN Word(h, a)
    ELSE IF (a - dst) \div wsize + 1 <= n \div wsize
    THEN src[(a - dst) \div wsize + 1]
    ELSE MergeBytes(Word(h, a), src[(a - dst) \div wsize + 1], n % wsize)

\* stores the first n bytes of the word sequence src at dst
WriteBytes(h, dst, n, src) ==
    IF n = 0 THEN h
    ELSE IF ~(InMem(h, dst) /\ dst + n <= h.brk)
    THEN [h EXCEPT !.fault = TRUE]
    ELSE [h EXCEPT !.mem =
            [a \in {x \in DOMAIN h.mem
                            \cup {dst + (i - 1) * wsize : i \in 1..WordsOf(n)} :
                        WordAfterWrite(h, dst, n, src, x) # h.g}
                |-> WordAfterWrite(h, dst, n, src, a)]]

memcpy(h, dst, src, n) ==
    WriteBytes(h, dst, n, [i \in 1..WordsOf(n) |-> Ld(h, src + (i - 1) * wsize)])

\* memset with the byte c = 0, the only use of mm.c
memset(h, dst, c, n) ==
    WriteBytes(h, dst, n, [i \in 1..WordsOf(n) |-> c])

(***************************************************************************)
(* Coalescing, heap extension, splitting and the search.                   *)
(***************************************************************************)
\* the four cases of coalesce_block; the sizes are those of the heap h the
\* function was entered with
coalesce_cases(h, block, block_next, block_prev, prev_alloc, next_alloc) ==
    IF prev_alloc /\ next_alloc
    THEN [h |-> add_node(h, block), ret |-> block]
    ELSE IF prev_alloc /\ ~next_alloc
    THEN [h |-> add_node(write_block(delete_node(h, block_next), block,
                                     get_size(h, block)
                                         + get_size(h, block_next),
                                     FALSE),
                         block),
          ret |-> block]
    ELSE IF ~prev_alloc /\ next_alloc
    THEN [h |-> add_node(write_block(delete_node(h, block_prev), block_prev,
                                     get_size(h, block)
                                         + get_size(h, block_prev),
                                     FALSE),
                         block_prev),
          ret |-> block_prev]
    ELSE [h |-> add_node(write_block(delete_node(delete_node(h, block_prev),
                                                 block_next),
                                     block_prev,
                                     get_size(h, block)
                                         + get_size(h, block_prev)
                                         + get_size(h, block_next),
                                     FALSE),
                         block_prev),
          ret |-> block_prev]

\* variant: the block is inserted without looking at its neighbours
coalesce_block_no_merge(h, block) ==
    [h |-> add_node(h, block), ret |-> block]

\* variant: the block before is never looked at
coalesce_block_next_only(h, block) ==
    coalesce_cases(h, block, find_next(h, block), NULL, TRUE,
                   get_alloc(h, find_next(h, block)))

\* variant: the block before is looked up whatever the prev_alloc bit says
coalesce_block_walks_back(h, block) ==
    coalesce_cases(h, block, find_next(h, block), find_prev(h, block),
                   get_alloc(h, find_prev(h, block)),
                   get_alloc(h, find_next(h, block)))

\* coalesce_block: the condition under which find_prev is called
coalesce_calls_find_prev(h, block) == ~get_prev_alloc(Ld(h, block))

coalesce_block(h, block) ==
    coalesce_cases(h, block, find_next(h, block),
                   IF ~get_prev_alloc(Ld(h, block)) THEN find_prev(h, block)
                   ELSE NULL,
                   get_prev_alloc(Ld(h, block)),
                   get_alloc(h, find_next(h, block)))

\* extend_heap: write_epilogue(find_next(block))
write_epilogue_after(h, block) == write_epilogue(h, find_next(h, block))

\* variant of extend_heap_with: no epilogue header is written
extend_heap_with_no_epilogue(r, size) ==
    IF r.ret = SBRK_FAIL THEN [h |-> r.h, ret |-> NULL]
    ELSE coalesce_block(write_block(r.h, payload_to_header(r.ret), size,
                                    FALSE),
                        payload_to_header(r.ret))

\* variant of extend_heap_with: the result of mem_sbrk is not tested
extend_heap_with_unchecked(r, size) ==
    coalesce_block(
        write_epilogue_after(
            write_block(r.h, payload_to_header(r.ret), size, FALSE),
            payload_to_header(r.ret)),
        payload_to_header(r.ret))

\* extend_heap after mem_sbrk has returned r
extend_heap_with(r, size) ==
    IF r.ret = SBRK_FAIL THEN [h |-> r.h, ret |-> NULL]
    ELSE coalesce_block(
             write_epilogue_after(
                 write_block(r.h, payload_to_header(r.ret), size, FALSE),
                 payload_to_header(r.ret)),
             payload_to_header(r.ret))

\* variant: no epilogue header is written at the new heap end
extend_heap_no_epilogue(h, size0) ==
    extend_heap_with_no_epilogue(mem_sbrk(h, round_up(size0, dsize)),
                                 round_up(size0, dsize))

extend_heap(h, size0) ==
    extend_heap_with(mem_sbrk(h, round_up(size0, dsize)),
                     round_up(size0, dsize))

\* split_block: the residue after the block has been written with asize
split_rest(h, block_next, rest) ==
    add_node(write_block(h, block_next, rest, FALSE), block_next)

\* variant: the residue is not inserted into the index
split_block_no_insert(h, block, asize) ==
    IF get_size(h, block) - asize >= min_block_size
    THEN write_block(write_block(h, block, asize, TRUE),
                     find_next(write_block(h, block, asize, TRUE), block),
                     get_size(h, block) - asize, FALSE)
    ELSE write_block(h, block, get_size(h, block), TRUE)

\* variant: the block is never split
split_block_whole(h, block, asize) ==
    write_block(h, block, get_size(h, block), TRUE)

split_block(h, block, asize) ==
    IF get_size(h, block) - asize >= min_block_size
    THEN split_rest(write_block(h, block, asize, TRUE),
                    find_next(write_block(h, block, asize, TRUE), block),
                    get_size(h, block) - asize)
    ELSE write_block(h, block, get_size(h, block), TRUE)

\* split_block: what the function requires of its arguments on entry
split_block_requires(h, block, asize) ==
    get_alloc(h, block) /\ get_size(h, block) > asize

\* the inner loop of the first-fit part, over one list
RECURSIVE first_fit_scan(_, _, _, _)
first_fit_scan(h, block, asize, fuel) ==
    IF block = NULL \/ fuel = 0 THEN NULL
    ELSE IF asize <= get_size(h, block) THEN block
    ELSE first_fit_scan(h, get_next(h, block), asize, fuel - 1)

\* the outer loop of the first-fit part, classes i..4
RECURSIVE first_fit(_, _, _)
first_fit(h, i, asize) ==
    IF i >= 5 THEN NULL
    ELSE IF first_fit_scan(h, seg_head(h, i), asize, Fuel(h)) # NULL
    THEN first_fit_scan(h, seg_head(h, i), asize, Fuel(h))
    ELSE first_fit(h, i + 1, asize)

\* variant: the first block of the list is taken whatever its size
better_fit_scan_any_size(h, block, asize, good_block, good_size, tries, fuel) ==
    IF block = NULL \/ fuel = 0 THEN good_block ELSE block

\* the inner loop of the better-fit part, over one list; returns good_block
RECURSIVE better_fit_scan(_, _, _, _, _, _, _)
better_fit_scan(h, block, asize, good_block, good_size, tries, fuel) ==
    IF block = NULL \/ fuel = 0 THEN good_block
    ELSE IF asize = get_size(h, block) THEN block
    ELSE IF asize < get_size(h, block)
    THEN IF good_block = NULL
         THEN better_fit_scan(h, get_next(h, block), asize, block,
                              get_size(h, block), tries + 1, fuel - 1)
         ELSE IF tries < MAX_TRIES
         THEN IF get_size(h, block) < good_size
              THEN better_fit_scan(h, get_next(h, block), asize, block,
                                   get_size(h, block), tries + 1, fuel - 1)
              ELSE better_fit_scan(h, get_next(h, block), asize, good_block,
                                   good_size, tries, fuel - 1)
         ELSE good_block
    ELSE better_fit_scan(h, get_next(h, block), asize, good_block, good_size,
                         tries, fuel - 1)

\* variant: only the list of class i is searched
better_fit_one_class(h, i, asize) ==
    IF i >= SEG_LENGTH THEN NULL
    ELSE better_fit_scan(h, seg_head(h, i), asize, NULL, SIZE_MAX, 0, Fuel(h))

\* the inner loop of the better-fit part again, counting the blocks large
\* enough for asize that it takes or compares with good_block; the block
\* at which the loop breaks is not counted
RECURSIVE better_fit_considered(_, _, _, _, _, _, _)
better_fit_considered(h, block, asize, good_block, good_size, tries, fuel) ==
    IF block = NULL \/ fuel = 0 THEN 0
    ELSE IF asize = get_size(h, block) THEN 1
    ELSE IF asize < get_size(h, block)
    THEN IF good_block = NULL
         THEN 1 + better_fit_considered(h, get_next(h, block), asize, block,
                                        get_size(h, block), tries + 1,
                                        fuel - 1)
         ELSE IF tries < MAX_TRIES
         THEN IF get_size(h, block) < good_size
              THEN 1 + better_fit_considered(h, get_next(h, block), asize,
                                             block, get_size(h, block),
                                             tries + 1, fuel - 1)
              ELSE 1 + better_fit_considered(h, get_next(h, block), asize,
                                             good_block, good_size, tries,
                                             fuel - 1)
         ELSE 0
    ELSE better_fit_considered(h, get_next(h, block), asize, good_block,
                               good_size, tries, fuel - 1)

\* the outer loop of the better-fit part, classes i..SEG_LENGTH-1
RECURSIVE better_fit(_, _, _)
better_fit(h, i, asize) ==
    IF i >= SEG_LENGTH THEN NULL
    ELSE IF better_fit_scan(h, seg_head(h, i), asize, NULL, SIZE_MAX, 0,
                            Fuel(h)) # NULL
    THEN better_fit_scan(h, seg_head(h, i), asize, NULL, SIZE_MAX, 0, Fuel(h))
    ELSE better_fit(h, i + 1, asize)

\* variant: the search starts one class too high
find_fit_from_next_class(h, asize, class_idx) ==
    better_fit(h, class_idx + 1, asize)

\* find_fit with class_idx computed
find_fit_from(h, asize, class_idx) ==
    IF /\ class_idx >= 0
       /\ class_idx <= 4
       /\ first_fit(h, class_idx, asize) # NULL
    THEN first_fit(h, class_idx, asize)
    ELSE better_fit(h, class_idx, asize)

find_fit(h, asize) == find_fit_from(h, asize, get_seg_index(asize))

(***************************************************************************)
(* The public operations.                                                  *)
(***************************************************************************)
\* variant: the heads of the index are left as they were
mm_init_at_keeps_lists(h, start) ==
    [St(St(h, start, pack(0, TRUE, FALSE, FALSE)),
        start + wsize, pack(0, TRUE, TRUE, FALSE))
     EXCEPT !.hs = start + wsize]

\* variant: heap_start points at the prologue
mm_init_at_start_at_prologue(h, start) ==
    init_seg_list([St(St(h, start, pack(0, TRUE, FALSE, FALSE)),
                      start + wsize, pack(0, TRUE, TRUE, FALSE))
                   EXCEPT !.hs = start])

\* mm_init: prologue, epilogue, heap_start and the empty index
mm_init_at(h, start) ==
    init_seg_list([St(St(h, start, pack(0, TRUE, FALSE, FALSE)),
                      start + wsize, pack(0, TRUE, TRUE, FALSE))
                   EXCEPT !.hs = start + wsize])

\* mm_init: the result of the first heap extension e
mm_init_done(e) == [h |-> e.h, ret |-> e.ret # NULL]

\* mm_init after mem_sbrk has returned r
mm_init_with(r) ==
    IF r.ret = SBRK_FAIL THEN [h |-> r.h, ret |-> FALSE]
    ELSE mm_init_done(extend_heap(mm_init_at(r.h, r.ret), chunksize))

mm_init(h) == mm_init_with(mem_sbrk(h, 2 * wsize))

\* variant: the request is rounded up without the overhead
adjust_size_no_overhead(size) == round_up(size, dsize)

\* the adjusted block size of a request
adjust_size(size) == round_up((size + dsize) % SIZE_T_RANGE, dsize)

\* malloc: the heap in which split_block is called on block
malloc_before_split(h, block) ==
    delete_node(write_block(h, block, get_size(h, block), TRUE), block)

\* malloc: the block is marked allocated, taken off its list and split
malloc_place(h, block, asize) ==
    [h |-> split_block(malloc_before_split(h, block), block, asize),
     ret |-> header_to_payload(block)]

\* variant: the heap is always extended by one chunk
malloc_search_one_chunk(h, asize, fit) ==
    IF fit = NULL THEN extend_heap(h, chunksize)
    ELSE [h |-> h, ret |-> fit]

\* malloc: more memory is requested if no fit was found
malloc_search(h, asize, fit) ==
    IF fit = NULL THEN extend_heap(h, max(asize, chunksize))
    ELSE [h |-> h, ret |-> fit]

\* malloc after the search or the extension has returned e
malloc_found(e, asize) ==
    IF e.ret = NULL THEN [h |-> e.h, ret |-> NULL]
    ELSE malloc_place(e.h, e.ret, asize)

\* variant: a request of size 0 is served like any other
malloc_body_no_zero_check(h, size) ==
    malloc_found(malloc_search(h, adjust_size(size),
                               find_fit(h, adjust_size(size))),
                 adjust_size(size))

\* malloc after the heap has been initialised
malloc_body(h, size) ==
    IF size = 0 THEN [h |-> h, ret |-> NULL]
    ELSE malloc_found(malloc_search(h, adjust_size(size),
                                    find_fit(h, adjust_size(size))),
                      adjust_size(size))

\* malloc after mm_init has returned i
malloc_after_init(i, size) ==
    IF ~i.ret THEN [h |-> i.h, ret |-> NULL] ELSE malloc_body(i.h, size)

malloc(h, size) ==
    IF h.hs = NULL THEN malloc_after_init(mm_init(h), size)
    ELSE malloc_body(h, size)

\* free of the block with header block
free_block(h, block) ==
    coalesce_block(write_block(h, block, get_size(h, block), FALSE), block).h

\* variant: a null pointer is not tested for
free_unchecked(h, bp) == free_block(h, payload_to_header(bp))

free(h, bp) == IF bp = NULL THEN h ELSE free_block(h, payload_to_header(bp))

\* variant: the old block is freed also when malloc has failed
realloc_with_frees_on_failure(m, ptr, size, copysize) ==
    IF m.ret = NULL THEN [h |-> free(m.h, ptr), ret |-> NULL]
    ELSE [h |-> free(memcpy(m.h, m.ret, ptr,
                            IF size < copysize THEN size ELSE copysize),
                     ptr),
          ret |-> m.ret]

\* variant: the old block is freed before its bytes are copied
realloc_with_free_first(m, ptr, size, copysize) ==
    IF m.ret = NULL THEN [h |-> m.h, ret |-> NULL]
    ELSE [h |-> memcpy(free(m.h, ptr), m.ret, ptr,
                       IF size < copysize THEN size ELSE copysize),
          ret |-> m.ret]

\* realloc after malloc has returned m
realloc_with(m, ptr, size, copysize) ==
    IF m.ret = NULL THEN [h |-> m.h, ret |-> NULL]
    ELSE [h |-> free(memcpy(m.h, m.ret, ptr,
                            IF size < copysize THEN size ELSE copysize),
                     ptr),
          ret |-> m.ret]

\* variant: a null ptr is reported as a failure
realloc_null_as_failure(h, ptr, size) ==
    IF size = 0 THEN [h |-> free(h, ptr), ret |-> NULL]
    ELSE IF ptr = NULL THEN [h |-> h, ret |-> NULL]
    ELSE realloc_with(malloc(h, size), ptr, size,
                      get_payload_size(malloc(h, size).h,
                                       payload_to_header(ptr)))

\* variant: a size of 0 is passed on to malloc
realloc_zero_as_malloc(h, ptr, size) ==
    IF ptr = NULL THEN malloc(h, size)
    ELSE realloc_with(malloc(h, size), ptr, size,
                      get_payload_size(malloc(h, size).h,
                                       payload_to_header(ptr)))

realloc(h, ptr, size) ==
    IF size = 0 THEN [h |-> free(h, ptr), ret |-> NULL]
    ELSE IF ptr = NULL THEN malloc(h, size)
    ELSE realloc_with(malloc(h, size), ptr, size,
                      get_payload_size(malloc(h, size).h,
                                       payload_to_header(ptr)))

\* variant: the payload is returned as malloc left it
calloc_with_no_memset(m, asize) ==
    IF m.ret = NULL THEN [h |-> m.h, ret |-> NULL]
    ELSE [h |-> m.h, ret |-> m.ret]

\* calloc after malloc has returned m
calloc_with(m, asize) ==
    IF m.ret = NULL THEN [h |-> m.h, ret |-> NULL]
    ELSE [h |-> memset(m.h, m.ret, 0, asize), ret |-> m.ret]

\* the product of two size_t values
size_mul(x, y) == (x * y) % SIZE_T_RANGE

\* variant: the product is used without the division check
calloc_checked_no_overflow_check(h, elements, size, asize) ==
    IF elements = 0 THEN [h |-> h, ret |-> NULL]
    ELSE calloc_with(malloc(h, asize), asize)

\* calloc with asize = elements * size computed
calloc_checked(h, elements, size, asize) ==
    IF elements = 0 THEN [h |-> h, ret |-> NULL]
    ELSE IF asize \div elements # size THEN [h |-> h, ret |-> NULL]
    ELSE calloc_with(malloc(h, asize), asize)

calloc(h, elements, size) ==
    calloc_checked(h, elements, size, size_mul(elements, size))

(***************************************************************************)
(* The heap checker.  Its verdict is "true" or "false", or "loops" when    *)
(* the scan of a list never reaches a null next.                           *)
(***************************************************************************)
\* sizeof(block_t): the header and the two links
sizeof_block_t == 24

\* the inner loop of is_valid_segregated_list, over one list; the loop
\* reads the heap and writes nothing, so it runs for ever as soon as it
\* meets a node of the set seen of the nodes it has visited
RECURSIVE seg_list_scan(_, _, _)
seg_list_scan(h, curr, seen) ==
    IF curr = NULL THEN "true"
    ELSE IF curr \in seen THEN "loops"
    ELSE IF /\ get_next(h, curr) # NULL
            /\ get_prev(h, get_next(h, curr)) # curr
    THEN "false"
    ELSE seg_list_scan(h, get_next(h, curr), seen \cup {curr})

\* the outer loop of is_valid_segregated_list, classes i..SEG_LENGTH-1
RECURSIVE seg_lists_scan(_, _)
seg_lists_scan(h, i) ==
    IF i >= SEG_LENGTH THEN "true"
    ELSE IF seg_list_scan(h, seg_head(h, i), {}) # "true"
    THEN seg_list_scan(h, seg_head(h, i), {})
    ELSE seg_lists_scan(h, i + 1)

is_valid_segregated_list(h) == seg_lists_scan(h, 0)

in_heap(h, p) == p <= mem_heap_hi(h) /\ p >= mem_heap_lo(h)

\* is_valid_heap_boundaries with base and top computed; the function
\* returns at the test of the prologue and the epilogue
heap_boundaries_at(h, base, top) ==
    IF h.hs # base + 8 THEN "false"
    ELSE IF /\ get_size(h, top) = 0
            /\ get_size(h, base) = 0
            /\ get_alloc(h, top)
            /\ get_alloc(h, base)
    THEN "true"
    ELSE "false"

is_valid_heap_boundaries(h) ==
    heap_boundaries_at(h, mem_heap_lo(h),
                       mem_heap_hi(h) - sizeof_block_t + 1)

\* the loop of mm_checkheap over the blocks in address order
RECURSIVE checkheap_walk(_, _, _)
checkheap_walk(h, curr, fuel) ==
    IF ~(curr <= mem_heap_hi(h) /\ get_size(h, curr) # 0) THEN "true"
    ELSE IF fuel = 0 THEN "loops"
    ELSE IF ~in_heap(h, curr) THEN "false"
    ELSE IF /\ get_size(h, find_next(h, curr)) # 0
            /\ ~get_alloc(h, curr)
            /\ ~get_alloc(h, find_next(h, curr))
    THEN "false"
    ELSE checkheap_walk(h, find_next(h, curr), fuel - 1)

mm_checkheap(h) ==
    IF is_valid_segregated_list(h) # "true" THEN is_valid_segregated_list(h)
    ELSE IF is_valid_heap_boundaries(h) # "true" THEN "false"
    ELSE checkheap_walk(h, h.hs, Fuel(h))

(***************************************************************************)
(* The caller: a sequence of legal calls.  live lists the allocations the  *)
(* caller owns in the order it was given them, each with its payload       *)
(* address p and its request size n; last records the most recent call and *)
(* its result.                                                             *)
(***************************************************************************)
LivePtrs == {live[i].p : i \in DOMAIN live}
SizeOf(p) == IF p \in LivePtrs
             THEN live[CHOOSE i \in DOMAIN live : live[i].p = p].n
             ELSE 0
Without(p) == SelectSeq(live, LAMBDA a : a.p # p)
Alloc(p, n) == [p |-> p, n |-> n]
Call(op, p, n, ret) == [op |-> op, p |-> p, n |-> n, ret |-> ret]

\* the next state of the allocator's variables is the heap record h
Becomes(h) ==
    /\ mem' = h.mem
    /\ garbage' = h.g
    /\ brk' = h.brk
    /\ seg_list' = h.seg
    /\ heap_start' = h.hs
    /\ fault' = h.fault
    /\ hang' = h.hang

\* the caller has been given an allocation it fills before its next call
FillPending ==
    /\ last.op \in {"malloc", "realloc", "calloc"}
    /\ last.ret # NULL
    /\ last.n \in FilledSizes

Init ==
    /\ mem = << >>
    /\ garbage \in Garbage
    /\ brk = mem_heap_lo_addr
    /\ seg_list = [i \in 1..SEG_LENGTH |-> NULL]
    /\ heap_start = NULL
    /\ fault = FALSE
    /\ hang = FALSE
    /\ live = << >>
    /\ last = Call("none", NULL, 0, NULL)
    /\ nops = 0
    /\ naux = 0

MmInit ==
    /\ heap_start = NULL
    /\ \E h0 \in {H} : \E r \in {mm_init(h0)} :
          /\ Becomes(r.h)
          /\ last' = Call("init", NULL, 0, IF r.ret THEN 1 ELSE 0)
    /\ UNCHANGED <<live, nops, naux>>

Malloc ==
    /\ ~FillPending
    /\ nops < MaxOps
    /\ \E n \in RequestSizes :
          /\ n > 0 => Len(live) < MaxLive
          /\ n = 0 => naux < MaxAux
          /\ naux' = IF n = 0 THEN naux + 1 ELSE naux
          /\ \E h0 \in {H} : \E r \in {malloc(h0, n)} :
                /\ Becomes(r.h)
                /\ live' = IF r.ret # NULL THEN Append(live, Alloc(r.ret, n))
                           ELSE live
                /\ last' = Call("malloc", NULL, n, r.ret)
    /\ nops' = nops + 1

Free ==
    /\ ~FillPending
    /\ nops < MaxOps
    /\ \E p \in LivePtrs \cup {NULL} :
          /\ p = NULL => naux < MaxAux
          /\ naux' = IF p = NULL THEN naux + 1 ELSE naux
          /\ \E h0 \in {H} : \E h \in {free(h0, p)} : Becomes(h)
          /\ live' = Without(p)
          /\ last' = Call("free", p, SizeOf(p), NULL)
    /\ nops' = nops + 1

Realloc ==
    /\ ~FillPending
    /\ nops < MaxOps
    /\ naux < MaxAux
    /\ \E p \in LivePtrs \cup {NULL}, n \in RequestSizes :
          /\ (p = NULL /\ n > 0) => Len(live) < MaxLive
          /\ \E h0 \in {H} : \E r \in {realloc(h0, p, n)} :
                /\ Becomes(r.h)
                /\ live' = IF n = 0 THEN Without(p)
                           ELSE IF r.ret = NULL THEN live
                           ELSE Append(Without(p), Alloc(r.ret, n))
                /\ last' = Call("realloc", p, n, r.ret)
    /\ nops' = nops + 1
    /\ naux' = naux + 1

Calloc ==
    /\ ~FillPending
    /\ nops < MaxOps
    /\ naux < MaxAux
    /\ \E c \in CallocArgs :
          /\ c[1] * c[2] > 0 => Len(live) < MaxLive
          /\ \E h0 \in {H} : \E r \in {calloc(h0, c[1], c[2])} :
                /\ Becomes(r.h)
                /\ live' = IF r.ret # NULL
                           THEN Append(live, Alloc(r.ret, c[1] * c[2]))
                           ELSE live
                /\ last' = Call("calloc", NULL, c[1] * c[2], r.ret)
    /\ nops' = nops + 1
    /\ naux' = naux + 1

\* the caller fills the payload of the allocation it has just been given
\* (randomize_block after each successful call of the driver)
UserWrite ==
    /\ FillPending
    /\ \E p \in LivePtrs \cap {last.ret}, v \in FillValues :
          /\ \E h0 \in {H}, n \in {SizeOf(p)} :
                \E words \in {[i \in 1..WordsOf(n) |-> v]} :
                   \E h \in {WriteBytes(h0, p, n, words)} : Becomes(h)
          /\ last' = Call("write", p, SizeOf(p), NULL)
    /\ UNCHANGED <<live, nops, naux>>

Next == MmInit \/ Malloc \/ Free \/ Realloc \/ Calloc \/ UserWrite

Spec == Init /\ [][Next]_vars

\* the driver runs a trace a second time: it resets the heap primitive,
\* forgets the allocations of the first run and calls mm_init again
Reinit ==
    /\ heap_start # NULL
    /\ ~FillPending
    /\ last.op # "init"
    /\ nops < MaxOps
    /\ \E h0 \in {H} : \E r \in {mm_init(mem_reset_brk(h0))} :
          /\ Becomes(r.h)
          /\ last' = Call("init", NULL, 0, IF r.ret THEN 1 ELSE 0)
    /\ live' = << >>
    /\ nops' = nops + 1
    /\ UNCHANGED naux

NextReinit == Next \/ Reinit

SpecReinit == Init /\ [][NextReinit]_vars

(***************************************************************************)
(* The heap as the walks of the code see it.                               *)
(***************************************************************************)
Initialised == heap_start # NULL

\* the blocks met from b by adding sizes, up to a zero size or the heap end
RECURSIVE Walk(_, _, _)
Walk(h, b, fuel) ==
    IF fuel = 0 \/ ~InMem(h, b) \/ get_size(h, b) = 0 THEN << >>
    ELSE <<b>> \o Walk(h, find_next(h, b), fuel - 1)

\* the address at which that walk stops
RECURSIVE WalkEnd(_, _, _)
WalkEnd(h, b, fuel) ==
    IF fuel = 0 \/ ~InMem(h, b) \/ get_size(h, b) = 0 THEN b
    ELSE WalkEnd(h, find_next(h, b), fuel - 1)

HeapBlocks == Walk(H, heap_start, Fuel(H))
HeapEnd == WalkEnd(H, heap_start, Fuel(H))
FreeBlocks ==
    LET B == HeapBlocks
    IN  {B[i] : i \in {j \in DOMAIN B : ~get_alloc(H, B[j])}}

\* the nodes met from a list head by following next, up to null
RECURSIVE ListFrom(_, _, _)
ListFrom(h, x, fuel) ==
    IF fuel = 0 \/ x = NULL THEN << >>
    ELSE <<x>> \o ListFrom(h, get_next(h, x), fuel - 1)

ListOf(idx) == ListFrom(H, seg_head(H, idx), Fuel(H))
Classes == 0..(SEG_LENGTH - 1)

\* the lists of the classes c..SEG_LENGTH-1, one after the other
RECURSIVE ListsFrom(_)
ListsFrom(c) ==
    IF c >= SEG_LENGTH THEN << >> ELSE ListOf(c) \o ListsFrom(c + 1)
Range(q) == {q[i] : i \in DOMAIN q}

\* a faulty caller: it stores the value v into the first two words of the
\* payload of a block it has freed (the links of the free block b)
StaleStore(h, b, v) == St(St(h, NextField(b), v), PrevField(b), v)

\* the heap after the faulty store is what the checker is there to reject;
\* no call follows it
Corrupt ==
    /\ heap_start # NULL
    /\ ~FillPending
    /\ last.op # "corrupt"
    /\ \E h0 \in {H} :
          \E b \in {x \in Range(Walk(h0, h0.hs, Fuel(h0))) :
                       ~get_alloc(h0, x) /\ get_size(h0, x) > min_block_size} :
             \E v \in {NULL} \cup Range(Walk(h0, h0.hs, Fuel(h0))) :
                /\ Becomes(StaleStore(h0, b, v))
                /\ last' = Call("corrupt", header_to_payload(b), v, NULL)
    /\ UNCHANGED <<live, nops, naux>>

Legal == last.op # "corrupt" /\ Next

NextCorrupt == Legal \/ Corrupt

SpecCorrupt == Init /\ [][NextCorrupt]_vars

\* the allocator before the first init, on an arena holding g everywhere
FreshHeap(g) ==
    [mem |-> << >>, g |-> g, brk |-> mem_heap_lo_addr,
     seg |-> [i \in 1..SEG_LENGTH |-> NULL], hs |-> NULL,
     fault |-> FALSE, hang |-> FALSE]

\* a caller that builds a long list: MaxList times a malloc of one of
\* LongListSizes and a malloc of a separator
ScriptMalloc ==
    /\ nops < 2 * MaxList
    /\ \E n \in IF nops % 2 = 0 THEN LongListSizes ELSE {SeparatorSize} :
          \E h0 \in {H} : \E r \in {malloc(h0, n)} :
             /\ Becomes(r.h)
             /\ live' = Append(live, Alloc(r.ret, n))
             /\ last' = Call("malloc", NULL, n, r.ret)
    /\ nops' = nops + 1
    /\ UNCHANGED naux

\* then the free of each block that is not a separator, in the order of
\* their allocation: they are free blocks of one class, kept apart by live
\* blocks
ScriptFree ==
    /\ nops >= 2 * MaxList
    /\ nops < 3 * MaxList
    /\ \E p \in {live[nops - 2 * MaxList + 1].p} :
          /\ \E h0 \in {H} : \E h \in {free(h0, p)} : Becomes(h)
          /\ live' = Without(p)
          /\ last' = Call("free", p, SizeOf(p), NULL)
    /\ nops' = nops + 1
    /\ UNCHANGED naux

\* then mallocs whose search starts in the class of the list
ProbeMalloc ==
    /\ nops >= 3 * MaxList
    /\ nops < 3 * MaxList + MaxOps
    /\ \E n \in ProbeSizes :
          \E h0 \in {H} : \E r \in {malloc(h0, n)} :
             /\ Becomes(r.h)
             /\ live' = IF r.ret # NULL THEN Append(live, Alloc(r.ret, n))
                        ELSE live
             /\ last' = Call("malloc", NULL, n, r.ret)
    /\ nops' = nops + 1
    /\ UNCHANGED naux

NextLongList == ScriptMalloc \/ ScriptFree \/ ProbeMalloc

SpecLongList == Init /\ [][NextLongList]_vars

\* a caller that asks for nearly the whole address space in its last call:
\* the requests for which size + dsize, or the rounding of it, passes the
\* largest size_t
HugeSizes == {SIZE_T_RANGE - 1, SIZE_T_RANGE - 16, SIZE_T_RANGE - 17}

MallocHuge ==
    /\ ~FillPending
    /\ last.n \notin HugeSizes
    /\ nops < MaxOps
    /\ Len(live) < MaxLive
    /\ \E n \in HugeSizes :
          \E h0 \in {H} : \E r \in {malloc(h0, n)} :
             /\ Becomes(r.h)
             /\ live' = IF r.ret # NULL THEN Append(live, Alloc(r.ret, n))
                        ELSE live
             /\ last' = Call("malloc", NULL, n, r.ret)
    /\ nops' = nops + 1
    /\ UNCHANGED naux

\* no call follows a request the caller cannot use
Served == last.n \notin HugeSizes /\ Next

NextHuge == Served \/ MallocHuge

SpecHuge == Init /\ [][NextHuge]_vars

\* a caller that goes on after such a request: its first call asks for a
\* size whose adjusted size wraps to 0, then it allocates small blocks and
\* in the end frees allocations it holds, in any order
WrappedSizes == {SIZE_T_RANGE - 16, SIZE_T_RANGE - 17}
AliasSizes == {8, 32}

AliasHuge ==
    /\ nops = 0
    /\ \E n \in WrappedSizes :
          \E h0 \in {H} : \E r \in {malloc(h0, n)} :
             /\ Becomes(r.h)
             /\ live' = IF r.ret # NULL THEN Append(live, Alloc(r.ret, n))
                        ELSE live
             /\ last' = Call("malloc", NULL, n, r.ret)
    /\ nops' = nops + 1
    /\ UNCHANGED naux

AliasMalloc ==
    /\ nops >= 1
    /\ nops <= MaxOps
    /\ \E n \in AliasSizes :
          \E h0 \in {H} : \E r \in {malloc(h0, n)} :
             /\ Becomes(r.h)
             /\ live' = IF r.ret # NULL THEN Append(live, Alloc(r.ret, n))
                        ELSE live
             /\ last' = Call("malloc", NULL, n, r.ret)
    /\ nops' = nops + 1
    /\ UNCHANGED naux

\* the free of the k-th allocation the caller holds
AliasFree ==
    /\ nops > MaxOps
    /\ nops <= MaxOps + MaxLive
    /\ \E k \in DOMAIN live :
          /\ \E h0 \in {H} : \E h \in {free(h0, live[k].p)} : Becomes(h)
          /\ live' = SubSeq(live, 1, k - 1) \o SubSeq(live, k + 1, Len(live))
          /\ last' = Call("free", live[k].p, live[k].n, NULL)
    /\ nops' = nops + 1
    /\ UNCHANGED naux

NextAliased == AliasHuge \/ AliasMalloc \/ AliasFree

SpecAliased == Init /\ [][NextAliased]_vars

\* the words a payload of n bytes at p occupies
PayloadWords(a) == {a.p + (i - 1) * wsize : i \in 1..WordsOf(a.n)}
MemAt(m, g, a) == IF a \in DOMAIN m THEN m[a] ELSE g

\* the low k bytes of a word, 0 < k < 8 (bytes 4..7 of every word are zero)
LowBytes(w, k) == IF k >= 4 THEN w ELSE w % ByteMask(k)

\* the first n bytes at q in the arena (m2, g2) are the first n bytes at p in
\* the arena (m1, g1)
SameBytes(m2, g2, q, m1, g1, p, n) ==
    /\ \A i \in 0..(n \div wsize - 1) :
          MemAt(m2, g2, q + i * wsize) = MemAt(m1, g1, p + i * wsize)
    /\ n % wsize # 0 =>
          LowBytes(MemAt(m2, g2, q + (n \div wsize) * wsize), n % wsize)
              = LowBytes(MemAt(m1, g1, p + (n \div wsize) * wsize), n % wsize)

\* the first n bytes at p are zero
ZeroBytes(p, n) ==
    /\ \A i \in 0..(n \div wsize - 1) : Word(H, p + i * wsize) = 0
    /\ n % wsize # 0 =>
          LowBytes(Word(H, p + (n \div wsize) * wsize), n % wsize) = 0

\* the blocks and the free blocks of the heap h
BlocksOf(h) == Walk(h, h.hs, Fuel(h))
FreeBlocksOf(h) ==
    LET B == BlocksOf(h)
    IN  {B[i] : i \in {j \in DOMAIN B : ~get_alloc(h, B[j])}}

\* the address a lies in a free block of the heap h
InFreeBlock(h, a) ==
    \E b \in FreeBlocksOf(h) : b <= a /\ a < find_next(h, b)

\* the caller, whose allocations are lv, owns the allocation of n bytes at
\* p, and p is the payload of an allocated block of the heap h
IsLive(h, lv, p, n) ==
    /\ \E i \in DOMAIN lv : lv[i] = Alloc(p, n)
    /\ p % 16 = 0
    /\ payload_to_header(p) \in Range(BlocksOf(h))
    /\ get_alloc(h, payload_to_header(p))

\* malloc(n) finds no fit in the initialised heap h and mem_sbrk refuses
\* the extension it asks for
ExtensionFails(h, n) ==
    /\ h.hs # NULL
    /\ n > 0
    /\ n < SIZE_T_RANGE
    /\ find_fit(h, adjust_size(n)) = NULL
    /\ mem_sbrk(h, round_up(max(adjust_size(n), chunksize), dsize)).ret
           = SBRK_FAIL

\* a step leaves the arena, the heap size, the index and the caller's
\* allocations as they were
HeapUnchanged ==
    /\ mem' = mem
    /\ garbage' = garbage
    /\ brk' = brk
    /\ seg_list' = seg_list
    /\ heap_start' = heap_start
    /\ fault' = fault
    /\ hang' = hang
    /\ live' = live

\* the heap h is a prologue, one free block of size bytes at heap_start and
\* the epilogue, and that block is the only entry of the index
OneFreeBlock(h, size) ==
    /\ h.hs = mem_heap_lo(h) + wsize
    /\ extract_size(Ld(h, mem_heap_lo(h))) = 0
    /\ extract_alloc(Ld(h, mem_heap_lo(h)))
    /\ BlocksOf(h) = <<h.hs>>
    /\ get_size(h, h.hs) = size
    /\ ~get_alloc(h, h.hs)
    /\ get_size(h, h.hs + size) = 0
    /\ get_alloc(h, h.hs + size)
    /\ h.brk = h.hs + size + wsize
    /\ \A c \in Classes :
          ListFrom(h, seg_head(h, c), Fuel(h))
              = IF c = get_seg_index(size) THEN <<h.hs>> ELSE << >>

\* the words of the block b the allocator reads: the header, and the
\* links and the footer of a free block
WordsOfBlock(h, b) ==
    IF get_alloc(h, b)
    THEN {b}
    ELSE IF get_size(h, b) > min_block_size
    THEN {b, NextField(b), PrevField(b), find_next(h, b) - wsize}
    ELSE {b, NextField(b)}

\* the prologue, the epilogue and the words of the blocks of the heap h
KeptWords(h) ==
    LET B == BlocksOf(h)
    IN  {mem_heap_lo(h), WalkEnd(h, h.hs, Fuel(h))}
            \cup UNION {WordsOfBlock(h, B[i]) : i \in DOMAIN B}

\* the heap h with every other word of the arena (the payloads, the inside
\* of the free blocks, the words beyond the break) set to what a fresh
\* arena holds
Canon(h) ==
    LET K == KeptWords(h)
    IN  [h EXCEPT !.mem = [a \in {x \in DOMAIN h.mem : x \in K} |-> h.mem[a]]]

\* the index of the heap h: for each class the free blocks of its list,
\* as pairs of address and size, in no order
IndexOf(h) ==
    [c \in Classes |->
        {<<b, get_size(h, b)>> :
            b \in Range(ListFrom(h, seg_head(h, c), Fuel(h)))}]

\* following next from the node x leads back to a node already met
RECURSIVE ListCycles(_, _, _)
ListCycles(h, x, seen) ==
    IF x = NULL THEN FALSE
    ELSE IF x \in seen THEN TRUE
    ELSE ListCycles(h, get_next(h, x), seen \cup {x})

\* the call c of the caller, run on the heap h
OpOn(h, c) ==
    CASE c.op = "malloc" -> malloc(h, c.n)
      [] c.op = "free" -> [h |-> free(h, c.p), ret |-> NULL]
      [] c.op = "realloc" -> realloc(h, c.p, c.n)
      [] c.op = "calloc" ->
            LET a == CHOOSE x \in CallocArgs : x[1] * x[2] = c.n
            IN  calloc(h, a[1], a[2])
      [] OTHER -> [h |-> h, ret |-> c.ret]

TypeOK == fault = FALSE /\ hang = FALSE

(***************************************************************************)
(* Properties.                                                             *)
(***************************************************************************)

\* C1: the payload ranges [p, p+n) of the live allocations are pairwise
\* disjoint in every state a legal sequence of calls reaches.
PayloadsDisjoint ==
    \A i, j \in DOMAIN live :
        i # j => \/ live[i].p + live[i].n <= live[j].p
                 \/ live[j].p + live[j].n <= live[i].p

\* a freed block has been handed out again below another live payload
PayloadsDisjointWitness ==
    /\ Len(live) >= 2
    /\ last.op = "malloc"
    /\ last.ret # NULL
    /\ \E i \in DOMAIN live : live[i].p > last.ret

\* C2: a non-null pointer returned by malloc(n), n > 0, is 16-byte aligned
\* and [p, p+n) lies within [heap_lo, heap_hi] as they are at the return.
MallocAlignedInHeap ==
    (last.op = "malloc" /\ last.n > 0 /\ last.ret # NULL) =>
        /\ last.ret % 16 = 0
        /\ last.ret >= mem_heap_lo(H)
        /\ last.ret + last.n - 1 <= mem_heap_hi(H)

\* a malloc that had to extend the heap and returned a block that ends in
\* the new region
MallocAlignedInHeapWitness ==
    /\ last.op = "malloc"
    /\ last.ret # NULL
    /\ mem_heapsize(H) = 2 * wsize + 2 * chunksize
    /\ last.ret + last.n > mem_heap_lo(H) + 2 * wsize + chunksize

\* C3: no call other than the free or realloc of p itself changes a word of
\* the payload of a live allocation p; only the caller's own fill of p does.
PayloadsPreserved ==
    [][\A i \in DOMAIN live :
          ( /\ \E j \in DOMAIN live' : live'[j] = live[i]
            /\ ~(last'.op = "write" /\ last'.p = live[i].p) )
          => \A a \in PayloadWords(live[i]) :
                MemAt(mem', garbage', a) = MemAt(mem, garbage, a)]_vars

\* a filled payload is live while its physical neighbour has been freed and
\* merged and a later call has split a block
PayloadsPreservedWitness ==
    /\ \E i \in DOMAIN live :
          /\ live[i].n \in FilledSizes
          /\ \A a \in PayloadWords(live[i]) : Word(H, a) \in FillValues
          /\ \E b \in FreeBlocks : find_next(H, b) = payload_to_header(live[i].p)
    /\ last.op = "malloc"
    /\ last.ret # NULL
    /\ Len(live) >= 2

\* C4: after init and after every call no two physically adjacent blocks
\* are both free.
NoAdjacentFreeBlocks ==
    Initialised =>
        LET B == HeapBlocks
        IN  \A i \in DOMAIN B :
              (i + 1) \in DOMAIN B =>
                  get_alloc(H, B[i]) \/ get_alloc(H, B[i + 1])

\* a free has merged the block with a free predecessor and a free successor
NoAdjacentFreeBlocksWitness ==
    /\ last.op = "free"
    /\ last.p # NULL
    /\ \E b \in FreeBlocks :
          /\ b < payload_to_header(last.p)
          /\ find_next(H, b) > payload_to_header(last.p) + adjust_size(last.n)

\* C5: every free block of the heap is on exactly one list and once, and
\* nothing else is reachable from a list head.
FreeBlocksOnLists ==
    Initialised =>
        LET listed == ListsFrom(0)
        IN  /\ Cardinality(Range(listed)) = Len(listed)
            /\ Range(listed) = FreeBlocks

\* two free blocks, one of them of the minimum size, are on the lists
FreeBlocksOnListsWitness ==
    /\ Initialised
    /\ Cardinality(FreeBlocks) >= 2
    /\ seg_head(H, 0) # NULL

\* C6: the prev_alloc bit of every block and of the epilogue is the alloc
\* bit of its physical predecessor (allocated for the first block), and its
\* prev_min bit is set iff the predecessor has the minimum size.
PrevBitsMatch ==
    Initialised =>
        LET all == HeapBlocks \o <<HeapEnd>>
        IN  \A i \in DOMAIN all :
              LET hdr == Ld(H, all[i])
              IN  IF i = 1
                  THEN get_prev_alloc(hdr) /\ ~get_prev_min_tag(hdr)
                  ELSE /\ get_prev_alloc(hdr) = get_alloc(H, all[i - 1])
                       /\ get_prev_min_tag(hdr) =
                              (get_size(H, all[i - 1]) = min_block_size)

\* a block of the minimum size sits between two allocated blocks
PrevBitsMatchWitness ==
    /\ Initialised
    /\ LET B == HeapBlocks
       IN  \E i \in DOMAIN B :
             /\ get_size(H, B[i]) = min_block_size
             /\ (i + 1) \in DOMAIN B
             /\ get_prev_min_tag(Ld(H, B[i + 1]))
             /\ ~get_prev_alloc(Ld(H, B[i + 1]))

\* C7: every block on list i has a size of class i; lists 0..7 hold only
\* blocks of exactly 16, 32, ..., 128 bytes.
ListsHoldTheirClass ==
    Initialised =>
        \A c \in Classes :
            \A x \in Range(ListOf(c)) :
                /\ get_seg_index(get_size(H, x)) = c
                /\ c <= 7 => get_size(H, x) = 16 * (c + 1)

\* a block is on an exact-size list while another is on the last list
ListsHoldTheirClassWitness ==
    /\ Initialised
    /\ \E c \in 0..7 : seg_head(H, c) # NULL
    /\ seg_head(H, SEG_LENGTH - 1) # NULL

\* C8: every free block larger than the minimum size ends with a footer
\* whose size and allocated bit are those of its header.
FootersMatchHeaders ==
    Initialised =>
        \A b \in FreeBlocks :
            get_size(H, b) > min_block_size =>
                LET footer == Ld(H, find_next(H, b) - wsize)
                IN  /\ extract_size(footer) = get_size(H, b)
                    /\ extract_alloc(footer) = get_alloc(H, b)

\* a free has merged the block with its free successor while another
\* allocation is live: the footer of the merged block lies where the
\* footer of the successor was
FootersMatchHeadersWitness ==
    /\ last.op = "free"
    /\ last.p # NULL
    /\ payload_to_header(last.p) \in FreeBlocks
    /\ get_size(H, payload_to_header(last.p)) > adjust_size(last.n)
    /\ Len(live) >= 1

\* C9: on the doubly-linked lists (classes 1..14) the head has a null prev
\* and x.next.prev = x for every node x with a next.
LinksConsistent ==
    Initialised =>
        \A c \in Classes \ {0} :
            /\ seg_head(H, c) # NULL => get_prev(H, seg_head(H, c)) = NULL
            /\ \A x \in Range(ListOf(c)) :
                  get_next(H, x) # NULL => get_prev(H, get_next(H, x)) = x

\* a doubly-linked list holds two blocks
LinksConsistentWitness ==
    /\ Initialised
    /\ \E c \in Classes \ {0} : Len(ListOf(c)) >= 2

\* C10: the walk from heap_start stays inside the heap, meets only blocks
\* of a non-zero size that is a multiple of 16 and ends at the epilogue
\* header (size 0, allocated) in the last word of the heap; the prologue
\* word at heap_lo keeps size 0 and allocated.
WalkReachesEpilogue ==
    Initialised =>
        LET B == HeapBlocks
            end == HeapEnd
        IN  /\ \A i \in DOMAIN B :
                  /\ InMem(H, B[i])
                  /\ get_size(H, B[i]) > 0
                  /\ get_size(H, B[i]) % 16 = 0
            /\ end = mem_heap_hi(H) - 7
            /\ get_size(H, end) = 0
            /\ get_alloc(H, end)
            /\ get_size(H, mem_heap_lo(H)) = 0
            /\ get_alloc(H, mem_heap_lo(H))

\* the heap has been extended after the first chunk and the walk crosses
\* the place of the old epilogue inside a block
WalkReachesEpilogueWitness ==
    /\ Initialised
    /\ mem_heapsize(H) = 2 * wsize + 2 * chunksize
    /\ LET B == HeapBlocks
       IN  \E i \in DOMAIN B :
             /\ B[i] < mem_heap_lo(H) + wsize + chunksize
             /\ find_next(H, B[i]) > mem_heap_lo(H) + wsize + chunksize

\* C11: a successful q = realloc(p, m) with p non-null and m > 0 returns a
\* live allocation whose first min(m, old_size) bytes are the bytes p held
\* before the call, and the old block of p is free afterwards.
ReallocKeepsPrefix ==
    [][(last'.op = "realloc" /\ last'.p # NULL /\ last'.n > 0
            /\ last'.ret # NULL)
       => \A h1 \in {H'}, l1 \in {live'}, c \in {last'} :
             /\ IsLive(h1, l1, c.ret, c.n)
             /\ SameBytes(h1.mem, h1.g, c.ret, mem, garbage, c.p,
                          IF c.n < SizeOf(c.p) THEN c.n ELSE SizeOf(c.p))
             /\ InFreeBlock(h1, payload_to_header(c.p))
             /\ \A i \in DOMAIN l1 : l1[i].p # c.p]_vars

\* a realloc has moved a payload the caller had filled
ReallocKeepsPrefixWitness ==
    /\ last.op = "realloc"
    /\ last.p # NULL
    /\ last.n > 0
    /\ last.ret # NULL
    /\ Word(H, last.ret) \in FillValues
    /\ InFreeBlock(H, payload_to_header(last.p))

\* C12: calloc(n, s) returns null or a live allocation whose first n*s bytes
\* are zero, whatever the block held before.
CallocZeroes ==
    (last.op = "calloc" /\ last.ret # NULL) =>
        /\ IsLive(H, live, last.ret, last.n)
        /\ ZeroBytes(last.ret, last.n)

\* calloc has returned a block that held a payload the caller had filled:
\* the word after the zeroed bytes still holds the caller's data
CallocZeroesWitness ==
    /\ last.op = "calloc"
    /\ last.ret # NULL
    /\ Word(H, last.ret + WordsOf(last.n) * wsize) \in FillValues

\* C13: when the heap extension of a malloc or calloc fails, the call
\* returns null and leaves the heap words, the heap size, the free lists
\* and the live allocations exactly as they were.
FailedExtensionLeavesHeap ==
    [][(last'.op \in {"malloc", "calloc"} /\ ExtensionFails(H, last'.n))
       => (last'.ret = NULL /\ HeapUnchanged)]_vars

\* a malloc or calloc has failed on a full heap while allocations are live
FailedExtensionLeavesHeapWitness ==
    /\ last.op \in {"malloc", "calloc"}
    /\ last.n > 0
    /\ last.n < SIZE_T_RANGE
    /\ last.ret = NULL
    /\ Initialised
    /\ mem_heapsize(H) + chunksize > MAX_HEAP
    /\ Len(live) >= 2

\* C14: when realloc(p, m) with p non-null and m > 0 cannot obtain a new
\* block, it returns null and p stays a live allocation: its block stays
\* allocated and its size and payload bytes are unchanged.
FailedReallocKeepsBlock ==
    [][(last'.op = "realloc" /\ last'.p # NULL
            /\ ExtensionFails(H, last'.n))
       => /\ last'.ret = NULL
          /\ HeapUnchanged
          /\ \A h1 \in {H'}, l1 \in {live'}, c \in {last'} :
                IsLive(h1, l1, c.p, SizeOf(c.p))]_vars

\* a realloc of a filled payload has failed on a full heap
FailedReallocKeepsBlockWitness ==
    /\ last.op = "realloc"
    /\ last.p \in LivePtrs
    /\ last.n > 0
    /\ last.ret = NULL
    /\ Word(H, last.p) \in FillValues
    /\ mem_heapsize(H) + chunksize > MAX_HEAP

FreeNullIsNoOp ==
    [][(last'.op = "free" /\ last'.p = NULL) => HeapUnchanged]_vars

\* free(null) has been called on a heap with a live allocation and a
\* non-empty list
FreeNullIsNoOpWitness ==
    /\ last.op = "free"
    /\ last.p = NULL
    /\ Initialised
    /\ Len(live) >= 1
    /\ FreeBlocks # {}

ReallocZeroIsFree ==
    [][(last'.op = "realloc" /\ last'.p # NULL /\ last'.n = 0)
       => /\ last'.ret = NULL
          /\ H' = free(H, last'.p)
          /\ live' = Without(last'.p)]_vars

\* realloc(p, 0) has freed a block while another allocation is live
ReallocZeroIsFreeWitness ==
    /\ last.op = "realloc"
    /\ last.p # NULL
    /\ last.n = 0
    /\ last.ret = NULL
    /\ InFreeBlock(H, payload_to_header(last.p))
    /\ Len(live) >= 1

\* C19: calloc(n, s) returns null without allocating and without changing
\* the heap whenever n*s does not fit in a size_t, and whenever the product
\* fits (n, s > 0) the division check reports no overflow: calloc then
\* returns null only if malloc(n*s) does.
CallocOverflowReturnsNull ==
    [][last'.op = "calloc"
       => /\ last'.n >= SIZE_T_RANGE => (last'.ret = NULL /\ HeapUnchanged)
          /\ (0 < last'.n /\ last'.n < SIZE_T_RANGE /\ last'.ret = NULL)
                => malloc(H, last'.n).ret = NULL]_vars

\* a calloc whose product wraps to a size the heap could have served has
\* returned null
CallocOverflowReturnsNullWitness ==
    /\ last.op = "calloc"
    /\ last.n >= SIZE_T_RANGE
    /\ last.ret = NULL
    /\ Initialised
    /\ last.n % SIZE_T_RANGE > 0
    /\ find_fit(H, adjust_size(last.n % SIZE_T_RANGE)) # NULL

\* C20: malloc serves a request of n > 0 bytes with a block whose size is
\* the smallest multiple of 16 that is >= n + 8 and >= the minimum block
\* size 16; a request of 8 bytes is served by a block of 16 bytes.
MallocBlockSizeOneWordOverhead ==
    (last.op = "malloc" /\ last.n > 0 /\ last.ret # NULL) =>
        get_size(H, payload_to_header(last.ret))
            = max(round_up(last.n + wsize, dsize), min_block_size)

\* C21: after a successful init the heap is exactly the prologue word, one
\* free block of chunksize bytes at heap_start and the epilogue header;
\* heap_start is one word past the prologue, and the block is the only
\* entry of the whole index.
InitEstablishesHeap ==
    (last.op = "init" /\ last.ret = 1) => OneFreeBlock(H, chunksize)

\* init has succeeded on an arena that held non-zero words
InitEstablishesHeapWitness ==
    /\ last.op = "init"
    /\ last.ret = 1
    /\ garbage # 0
    /\ mem_heapsize(H) = 2 * wsize + chunksize

\* C22: an init after arbitrary operations resets the allocator.  The heap
\* it leaves is one free block of chunksize, the only entry of the index,
\* and agrees with the heap of a first init in every word the allocator
\* reads; and every call returns the pointer, and leaves the heap, that it
\* returns and leaves when no other word holds anything from before
\* (payloads are the caller's: malloc promises nothing about them).  So a
\* sequence replayed after the init returns the pointers, and gets the
\* verdict, of the first run.
ReinitResets ==
    [][\A c \in {last'}, h1 \in {H'} :
          /\ (c.op = "init" /\ c.ret = 1) =>
                /\ OneFreeBlock(h1, chunksize)
                /\ Canon(h1) = Canon(mm_init(FreshHeap(garbage)).h)
                /\ live' = << >>
          /\ c.op \in {"malloc", "free", "realloc", "calloc"} =>
                \A r \in {OpOn(Canon(H), c)} :
                   /\ r.ret = c.ret
                   /\ Canon(r.h) = Canon(h1)]_vars

\* after a second init on a heap that held a filled payload and had been
\* extended, a malloc has split the block of the new heap
ReinitResetsWitness ==
    /\ nops >= 2
    /\ Len(live) = 1
    /\ last.op = "malloc"
    /\ last.ret = heap_start + wsize
    /\ mem_heapsize(H) = 2 * wsize + chunksize
    /\ \E a \in DOMAIN mem : a >= brk /\ mem[a] \in FillValues

\* C23: directly after init, the first malloc(n) whose adjusted size a is
\* below chunksize returns the payload of an allocated block of size a at
\* heap_start, followed by one free block of chunksize - a and then by the
\* epilogue; the adjusted size of 16 is 32.
FirstMallocSplits ==
    [][(/\ (last.op = "init" /\ last.ret = 1) \/ heap_start = NULL
        /\ last'.op = "malloc"
        /\ last'.n > 0
        /\ adjust_size(last'.n) < chunksize)
       => \A h1 \in {H'}, c \in {last'}, a \in {adjust_size(last'.n)} :
             /\ adjust_size(16) = 32
             /\ c.ret = header_to_payload(h1.hs)
             /\ BlocksOf(h1) = <<h1.hs, h1.hs + a>>
             /\ get_size(h1, h1.hs) = a
             /\ get_alloc(h1, h1.hs)
             /\ get_size(h1, h1.hs + a) = chunksize - a
             /\ ~get_alloc(h1, h1.hs + a)
             /\ get_size(h1, h1.hs + chunksize) = 0
             /\ get_alloc(h1, h1.hs + chunksize)
             /\ h1.brk = h1.hs + chunksize + wsize]_vars

\* the first call was a malloc of 32 bytes and the initial block was split
FirstMallocSplitsWitness ==
    /\ nops = 1
    /\ last.op = "malloc"
    /\ last.n = 32
    /\ last.ret = heap_start + wsize
    /\ get_size(H, heap_start) = 48
    /\ BlocksOf(H) = <<heap_start, heap_start + 48>>

\* C24: when a malloc succeeds without a heap extension, a free of the
\* pointer it returned brings the index back to the free blocks (addresses
\* and sizes) it held in each class before the malloc.
MallocFreeRestoresIndex ==
    [][(/\ heap_start # NULL
        /\ last'.op = "malloc"
        /\ last'.ret # NULL
        /\ find_fit(H, adjust_size(last'.n)) # NULL)
       => \A h1 \in {H'}, c \in {last'} :
             /\ h1.brk = brk
             /\ IndexOf(free(h1, c.ret)) = IndexOf(H)]_vars

\* a malloc was served inside the initial chunk, behind a live block
MallocFreeRestoresIndexWitness ==
    /\ last.op = "malloc"
    /\ last.ret # NULL
    /\ last.ret # heap_start + wsize
    /\ Len(live) >= 2
    /\ mem_heapsize(H) = 2 * wsize + chunksize

\* C25: when a free has merged nothing (the block before and the block
\* after the freed one are allocated), a malloc of the same request size
\* that follows at once returns the freed pointer; a = malloc(100),
\* b = malloc(100), free(a), c = malloc(100) gives c = a.
FreedBlockReused ==
    [][(/\ last.op = "free"
        /\ last.p # NULL
        /\ ~get_alloc(H, payload_to_header(last.p))
        /\ get_size(H, payload_to_header(last.p)) = adjust_size(last.n)
        /\ get_prev_alloc(Ld(H, payload_to_header(last.p)))
        /\ get_alloc(H, find_next(H, payload_to_header(last.p)))
        /\ last'.op = "malloc"
        /\ last'.n = last.n)
       => /\ last'.ret = last.p
          /\ \A g \in Garbage :
                LET a == malloc(mm_init(FreshHeap(g)).h, 100)
                    b == malloc(a.h, 100)
                    c == malloc(free(b.h, a.ret), 100)
                IN  a.ret # NULL /\ b.ret # NULL /\ c.ret = a.ret]_vars

\* a freed block between the prologue and a live block was handed out again
FreedBlockReusedWitness ==
    /\ nops >= 4
    /\ last.op = "malloc"
    /\ last.ret = heap_start + wsize
    /\ Len(live) = 2
    /\ get_size(H, heap_start) = adjust_size(last.n)
    /\ live[1].p = header_to_payload(find_next(H, heap_start))

\* C26: whenever every allocation made so far has been freed, the heap is
\* one free block from the prologue to the epilogue and that block is the
\* only entry of the index; three malloc(16) freed in the order a, c, b
\* leave one free block.
AllFreedIsOneBlock ==
    (Initialised /\ live = << >>)
       => /\ OneFreeBlock(H, mem_heapsize(H) - 2 * wsize)
          /\ LET a == malloc(mm_init(FreshHeap(garbage)).h, 16)
                 b == malloc(a.h, 16)
                 c == malloc(b.h, 16)
             IN  /\ a.ret # NULL /\ b.ret # NULL /\ c.ret # NULL
                 /\ OneFreeBlock(free(free(free(c.h, a.ret), c.ret), b.ret),
                                 chunksize)

\* two allocations were freed in the order they were made
AllFreedIsOneBlockWitness ==
    /\ nops >= 4
    /\ live = << >>
    /\ last.op = "free"
    /\ last.p > heap_start + wsize

\* C27: a malloc(n) that follows the free of an allocation of n bytes does
\* not grow the heap; from init, malloc(24) and free bring the heap back
\* to the state the first iteration left, inside the initial chunk.
MallocFreeLoopIsBounded ==
    [][(/\ last.op = "free"
        /\ last.p # NULL
        /\ last'.op = "malloc"
        /\ last'.n = last.n)
       => /\ brk' = brk
          /\ \A g \in Garbage :
                LET h0 == mm_init(FreshHeap(g)).h
                    a == malloc(h0, 24)
                    h1 == free(a.h, a.ret)
                    b == malloc(h1, 24)
                    h2 == free(b.h, b.ret)
                IN  /\ a.ret # NULL /\ b.ret # NULL
                    /\ mem_heapsize(h0) = 2 * wsize + chunksize
                    /\ a.h.brk = h0.brk /\ b.h.brk = h0.brk
                    /\ h2 = h1]_vars

\* on a heap of two chunks a malloc followed the free of an allocation of
\* the same size and the heap is still two chunks
MallocFreeLoopIsBoundedWitness ==
    /\ nops >= 3
    /\ last.op = "malloc"
    /\ last.n = 4080
    /\ last.ret # NULL
    /\ Len(live) = 1
    /\ mem_heapsize(H) = 2 * wsize + 2 * chunksize

\* C28: mm_checkheap returns true in every state a legal sequence of calls
\* reaches.
CheckheapAcceptsLegalHeaps ==
    Initialised => mm_checkheap(H) = "true"

\* C29: mm_checkheap terminates and returns false on every heap that
\* violates one of I1-I7, a heap with a cycle in a free list among them.
CheckheapRejectsInvalidHeaps ==
    (/\ Initialised
     /\ \/ \E c \in Classes : ListCycles(H, seg_head(H, c), {})
        \/ ~(/\ FootersMatchHeaders
             /\ PrevBitsMatch
             /\ NoAdjacentFreeBlocks
             /\ FreeBlocksOnLists
             /\ ListsHoldTheirClass
             /\ LinksConsistent
             /\ WalkReachesEpilogue))
       => mm_checkheap(H) = "false"

\* C30: the classification gives every legal block size one class of
\* 0..14: 16, 32, ..., 128 give 0..7 and a larger size s gives
\* min(14, 8 + floor(log2(s)) - 7).  Stated of the size of every block of
\* the heap, each of which the allocator has classified or will classify.
ClassesFollowTheMapping ==
    LET RECURSIVE floor_log2(_)
        floor_log2(n) == IF n <= 1 THEN 0 ELSE 1 + floor_log2(n \div 2)
    IN  \A b \in Range(HeapBlocks) :
           /\ get_seg_index(get_size(H, b)) \in 0..14
           /\ get_seg_index(get_size(H, b)) =
                  IF get_size(H, b) <= 128 THEN get_size(H, b) \div 16 - 1
                  ELSE IF 8 + floor_log2(get_size(H, b)) - 7 < 14
                  THEN 8 + floor_log2(get_size(H, b)) - 7
                  ELSE 14

\* C31: find_fit(asize) returns null or a block that is on a free list, is
\* free and has a size >= asize; it returns null only if no free block of
\* the heap has a size >= asize (a free block of a size >= asize is never
\* in a class below the class of asize); and the search of malloc leaves
\* the break where it is whenever a free block could hold the request.
\* Stated for the
\* adjusted sizes of the requests and for the sizes of the free blocks of
\* the heap and the next size above each.
FindFitFindsAFit ==
    Initialised =>
        LET fb == FreeBlocks
            listed == Range(ListsFrom(0))
            sizes == {get_size(H, b) : b \in fb}
            probes == sizes \cup {x + dsize : x \in sizes}
                         \cup {adjust_size(n) : n \in RequestSizes \ {0}}
        IN  /\ \A a \in probes :
                  LET fit == find_fit(H, a)
                  IN  /\ fit # NULL =>
                            /\ fit \in listed
                            /\ ~get_alloc(H, fit)
                            /\ get_size(H, fit) >= a
                      /\ fit = NULL => \A b \in fb : get_size(H, b) < a
                      /\ \A b \in fb :
                            get_size(H, b) >= a =>
                               get_seg_index(get_size(H, b))
                                   >= get_seg_index(a)
            /\ \A n \in RequestSizes \ {0} :
                  (\E b \in fb : get_size(H, b) >= adjust_size(n))
                      => malloc_search(H, adjust_size(n),
                                       find_fit(H, adjust_size(n))).h.brk
                            = brk

\* two free blocks, one of them in the last class, and neither large
\* enough for a block of a whole chunk, which the search turns down
FindFitFindsAFitWitness ==
    /\ Initialised
    /\ Cardinality(FreeBlocks) >= 2
    /\ seg_head(H, SEG_LENGTH - 1) # NULL
    /\ find_fit(H, chunksize) = NULL
    /\ find_fit(H, 48) # NULL

\* C32: in the better-fit search, once a block large enough has been found
\* in a class, the scan of that class takes or compares at most 5 blocks
\* large enough, whatever the list holds.
BetterFitConsidersAtMostFive ==
    \A c \in 5..(SEG_LENGTH - 1), n \in ProbeSizes :
        better_fit_considered(H, seg_head(H, c), adjust_size(n), NULL,
                              SIZE_MAX, 0, Fuel(H)) <= MAX_TRIES

\* C33: when find_fit finds no block, a malloc that succeeds has moved the
\* break by exactly max(asize, chunksize); the block it returns starts at
\* the last block of the heap if that block was free and at the old
\* epilogue otherwise, has the size asize, and what is left of the merged
\* region is one free block up to the new epilogue.  For calloc(4096, 4)
\* the extension is at least 16384 bytes and a header.
ExtensionGrowsByMax ==
    [][(/\ heap_start # NULL
        /\ last'.op \in {"malloc", "calloc"}
        /\ last'.n > 0
        /\ last'.n < SIZE_T_RANGE
        /\ last'.ret # NULL
        /\ find_fit(H, adjust_size(last'.n)) = NULL)
       => \A h1 \in {H'}, c \in {last'}, a \in {adjust_size(last'.n)} :
             LET B == BlocksOf(H)
                 tail == B[Len(B)]
                 block == IF get_alloc(H, tail) THEN brk - wsize ELSE tail
                 rest == h1.brk - wsize - (block + a)
             IN  /\ h1.brk = brk + max(a, chunksize)
                 /\ c.ret = header_to_payload(block)
                 /\ get_size(h1, block) = a
                 /\ get_alloc(h1, block)
                 /\ rest >= 0
                 /\ rest > 0 =>
                       /\ get_size(h1, block + a) = rest
                       /\ ~get_alloc(h1, block + a)
                 /\ get_size(h1, h1.brk - wsize) = 0
                 /\ get_alloc(h1, h1.brk - wsize)
                 /\ max(adjust_size(size_mul(4096, 4)), chunksize)
                        >= 16384 + wsize]_vars

\* a calloc of 4096 bytes has extended the heap by more than a chunk and
\* its block starts in the free block the heap ended with
ExtensionGrowsByMaxWitness ==
    /\ last.op = "calloc"
    /\ last.n = 4096
    /\ last.ret # NULL
    /\ Len(live) >= 2
    /\ mem_heapsize(H) = 2 * wsize + 2 * chunksize + dsize
    /\ last.ret < mem_heap_lo(H) + wsize + chunksize

\* C34: malloc's split of the block b it has found, of size s, for asize:
\* if s - asize >= 16, b ends with the size asize and is followed by a free
\* block of s - asize that is on the list of its class, has its header
\* (and its footer when larger than 16) written, and whose successor has
\* its prev_alloc bit clear and its prev_min bit set iff s - asize = 16;
\* otherwise b keeps the size s, is allocated, and the heap has the blocks
\* it had.
SplitCarvesTheRest ==
    [][(/\ heap_start # NULL
        /\ last'.op = "malloc"
        /\ last'.ret # NULL
        /\ find_fit(H, adjust_size(last'.n)) # NULL)
       => \A h1 \in {H'}, a \in {adjust_size(last'.n)},
             b \in {find_fit(H, adjust_size(last'.n))} :
             LET s == get_size(H, b)
                 r == b + a
             IN  /\ last'.ret = header_to_payload(b)
                 /\ get_alloc(h1, b)
                 /\ IF s - a >= min_block_size
                    THEN /\ get_size(h1, b) = a
                         /\ get_size(h1, r) = s - a
                         /\ ~get_alloc(h1, r)
                         /\ get_prev_alloc(Ld(h1, r))
                         /\ get_prev_min_tag(Ld(h1, r)) = (a = min_block_size)
                         /\ r \in Range(ListFrom(h1,
                                   seg_head(h1, get_seg_index(s - a)),
                                   Fuel(h1)))
                         /\ s - a > min_block_size =>
                               Ld(h1, b + s - wsize) = Ld(h1, r)
                         /\ ~get_prev_alloc(Ld(h1, b + s))
                         /\ get_prev_min_tag(Ld(h1, b + s))
                                = (s - a = min_block_size)
                         /\ BlocksOf(h1) =
                                SelectSeq(BlocksOf(H), LAMBDA x : x <= b)
                                   \o <<r>>
                                   \o SelectSeq(BlocksOf(H), LAMBDA x : x > b)
                    ELSE /\ get_size(h1, b) = s
                         /\ BlocksOf(h1) = BlocksOf(H)
                         /\ FreeBlocksOf(h1) = FreeBlocksOf(H) \ {b}
                         /\ get_prev_alloc(Ld(h1, b + s))]_vars

\* a malloc has split a free block of 48 bytes and left a block of the
\* minimum size behind its own
SplitCarvesTheRestWitness ==
    /\ last.op = "malloc"
    /\ last.ret # NULL
    /\ get_size(H, payload_to_header(last.ret)) = 32
    /\ get_size(H, payload_to_header(last.ret) + 32) = min_block_size
    /\ ~get_alloc(H, payload_to_header(last.ret) + 32)
    /\ seg_head(H, 0) = payload_to_header(last.ret) + 32

\* C35: every call of split_block that malloc makes meets what the
\* function requires on entry: the block is marked allocated and its size
\* is greater than asize, also when the block found has exactly asize bytes.
SplitPreconditionsHold ==
    [][(/\ heap_start # NULL
        /\ last'.op = "malloc"
        /\ last'.ret # NULL)
       => \A a \in {adjust_size(last'.n)} :
             \A e \in {malloc_search(H, a, find_fit(H, a))} :
                split_block_requires(malloc_before_split(e.h, e.ret),
                                     e.ret, a)]_vars

\* C36: free of the block b leaves one free block that covers b and each
\* of its two physical neighbours that was free: it starts at the block
\* before b if that was free and at b otherwise, its size is the sum of
\* the sizes merged, the neighbours absorbed have left the index and the
\* merged block has entered it.  The state of the block before b is what
\* b's prev_alloc bit says, and find_prev is called only when that block
\* is free.
FreeMergesNeighbours ==
    [][(/\ heap_start # NULL
        /\ last'.op = "free"
        /\ last'.p # NULL)
       => \A h1 \in {H'}, b \in {payload_to_header(last'.p)} :
             LET B == BlocksOf(H)
                 i == CHOOSE j \in DOMAIN B : B[j] = b
                 s == get_size(H, b)
                 prev == IF i = 1 THEN NULL ELSE B[i - 1]
                 next == IF i = Len(B) THEN NULL ELSE B[i + 1]
                 pf == prev # NULL /\ ~get_alloc(H, prev)
                 nf == next # NULL /\ ~get_alloc(H, next)
                 start == IF pf THEN prev ELSE b
                 size == s + (IF pf THEN get_size(H, prev) ELSE 0)
                           + (IF nf THEN get_size(H, next) ELSE 0)
                 gone == (IF pf THEN {prev} ELSE {})
                            \cup (IF nf THEN {next} ELSE {})
             IN  /\ b \in Range(B)
                 /\ get_alloc(H, b)
                 /\ get_prev_alloc(Ld(H, b)) = ~pf
                 /\ coalesce_calls_find_prev(H, b) = pf
                 /\ pf => find_prev(H, b) = prev
                 /\ ~get_alloc(h1, start)
                 /\ get_size(h1, start) = size
                 /\ Range(BlocksOf(h1))
                       = (Range(B) \ (gone \cup {b})) \cup {start}
                 /\ FreeBlocksOf(h1)
                       = (FreeBlocksOf(H) \ gone) \cup {start}
                 /\ Range(ListsFrom(0)') = FreeBlocksOf(h1)
                 /\ start \in Range(ListFrom(h1,
                                    seg_head(h1, get_seg_index(size)),
                                    Fuel(h1)))
                 /\ ~h1.fault]_vars

\* a free has merged the block with a free block on each side
FreeMergesNeighboursWitness ==
    /\ last.op = "free"
    /\ last.p # NULL
    /\ \E f \in FreeBlocks :
          /\ f < payload_to_header(last.p)
          /\ f + get_size(H, f)
                > payload_to_header(last.p) + adjust_size(last.n)

\* C37: delete_node leaves the link fields of the block it has removed
\* null, in every class, the minimum-size class and the removal of a list
\* head included.  The calls looked at are those a free of a live block
\* makes on the free neighbours of that block, in the heap coalesce_block
\* is entered with, and the call malloc makes on the block it has found.
DeleteNodeClearsLinks ==
    Initialised =>
        /\ \A k \in DOMAIN live :
              LET b == payload_to_header(live[k].p)
                  h0 == write_block(H, b, get_size(H, b), FALSE)
                  near == {find_next(h0, b)}
                             \cup (IF coalesce_calls_find_prev(h0, b)
                                   THEN {find_prev(h0, b)} ELSE {})
              IN  \A nb \in {x \in near : ~get_alloc(h0, x)} :
                     /\ get_next(delete_node(h0, nb), nb) = NULL
                     /\ get_size(h0, nb) > min_block_size =>
                           get_prev(delete_node(h0, nb), nb) = NULL
        /\ \A n \in ProbeSizes :
              LET b == find_fit(H, adjust_size(n))
              IN  b # NULL =>
                     /\ get_next(malloc_before_split(H, b), b) = NULL
                     /\ get_prev(malloc_before_split(H, b), b) = NULL

\* C38: for every request of n > 0 bytes, malloc returns null or a block
\* whose payload capacity, its size less the header word, is at least n:
\* n + 16 rounded up to a multiple of 16 never wraps around into a small
\* block size that is served from the free lists.
MallocCapacityCoversRequest ==
    (last.op = "malloc" /\ last.n > 0 /\ last.ret # NULL)
       => /\ get_alloc(H, payload_to_header(last.ret))
          /\ get_size(H, payload_to_header(last.ret)) - wsize >= last.n

\* C39: in every reachable state each allocated block has exactly the
\* adjusted size of its request, round_up(n + 16, 16), which is at least
\* 32: split_block leaves a block whole only on an exact fit, no allocated
\* block has the minimum size, find_fit never returns a free block of 16
\* bytes, and such a block leaves class 0 only by being merged into a
\* larger free block.
AllocatedSizeIsAdjustedSize ==
    [][(heap_start # NULL /\ last'.op # "init")
       => \A h1 \in {H'}, l1 \in {live'} :
             /\ \A k \in DOMAIN l1 :
                   /\ get_alloc(h1, payload_to_header(l1[k].p))
                   /\ get_size(h1, payload_to_header(l1[k].p))
                         = adjust_size(l1[k].n)
                   /\ adjust_size(l1[k].n) >= 2 * min_block_size
             /\ \A b \in Range(BlocksOf(h1)) :
                   get_alloc(h1, b) =>
                      /\ get_size(h1, b) > min_block_size
                      /\ \E k \in DOMAIN l1 : l1[k].p = header_to_payload(b)
             /\ last'.op = "malloc" /\ last'.ret # NULL =>
                   LET f == find_fit(H, adjust_size(last'.n))
                   IN  f # NULL => get_size(H, f) > min_block_size
             /\ \A x \in FreeBlocksOf(H) :
                   get_size(H, x) = min_block_size =>
                      \/ /\ x \in FreeBlocksOf(h1)
                         /\ get_size(h1, x) = min_block_size
                         /\ x \in Range(ListFrom(h1, seg_head(h1, 0),
                                                 Fuel(h1)))
                      \/ \E f \in FreeBlocksOf(h1) :
                            /\ f <= x
                            /\ x < f + get_size(h1, f)
                            /\ get_size(h1, f) > min_block_size]_vars

\* C40: every call of malloc, free, realloc and calloc ends: in every
\* reachable state each of the 15 free lists is finite, free of cycles
\* and ends in null after fewer nodes than the heap has words, its nodes
\* are free blocks of the heap, so the scans of find_fit and the scan of
\* the minimum-size class in delete_node end, and every free block of 16
\* bytes, which is what delete_node is asked to find there, is on that
\* list.
ListsAreFinite ==
    Initialised =>
        /\ hang = FALSE
        /\ \A c \in Classes :
              /\ ~ListCycles(H, seg_head(H, c), {})
              /\ Len(ListOf(c)) < Fuel(H)
              /\ Range(ListOf(c)) \subseteq FreeBlocks
              /\ \A i \in 1..(Len(ListOf(c)) - 1) :
                    get_next(H, ListOf(c)[i]) = ListOf(c)[i + 1]
              /\ ListOf(c) # << >> =>
                    get_next(H, ListOf(c)[Len(ListOf(c))]) = NULL
        /\ \A x \in FreeBlocks :
              get_size(H, x) = min_block_size => x \in Range(ListOf(0))

====
